---- MODULE Spec2Model ----
(***************************************************************************)
(* The ingestion pipeline of shark-indexer (IndexerService): the control   *)
(* loop, the sequential path, the producer/consumer window, the database   *)
(* rows it commits and the durable cursor SyncStatus.current_height.       *)
(***************************************************************************)
EXTENDS Integers, Sequences, FiniteSets, TLC

\* ------------------------------------------------------------------ bounds
\* Highest full height the node ever reports.
MaxHeight == 5
\* Node and database failures injected in one behaviour.
MaxFaults == 1
\* Heights of one call of get_blocks_in_range whose requests the node may fail.
MaxFaultyHeights == 1
\* Heights of the longest range get_blocks_in_range is called with.
MaxRange == 3
\* Rows one session is given, and the heights they are rows of (SpecSession).
MaxRows == 2
\* Process kills followed by a restart in one behaviour.
MaxCrashes == 1
\* Chain reorganizations of the node in one behaviour (SpecReorg only).
MaxReorgs == 1
\* Rows of the outputs table and of the blocks table read by the API.
MaxOutputs == 2
MaxApiBlocks == 2
\* Blocks of a mini-batch given to _process_blocks_batch on its own.
MaxBatchLen == 4

\* ----------------------------------------------------------- configuration
\* self.config, scaled down so that the pipelined tail is exercised.
BatchSize == 4
MaxWorkers == 2
\* The values of config['sequential_steps'] a behaviour may be started with: a
\* short prefix, and the default, which equals the default batch_size.
SequentialStepsValues == {1, BatchSize}
FetchBatchSize == 2
DbBatchSize == 2
ParallelMode == TRUE
\* max_consecutive_failures of _block_consumer
MaxConsecutiveFailures == 3
\* NODE_RETRIES of NodeClient._request
NodeRetries == 3
\* max_retries of fetch_block_with_retry
FetchMaxRetries == 3
\* The cap of max_concurrent in get_blocks_in_range, scaled down from 20.
ConcurrencyCap == 2

Min(a, b) == IF a <= b THEN a ELSE b
Max(a, b) == IF a >= b THEN a ELSE b

Heights == 1..MaxHeight
Forks == 0..MaxReorgs
\* A block id: the height it was mined at and the fork it belongs to.
BlockIds == Heights \X Forks
Workers == 1..MaxWorkers

\* The sentinel put on the queue to stop a consumer (None).
NONE == <<0, 0>>

VARIABLES
    \* ---- node
    nodeHeight,      \* info['fullHeight']
    chain,           \* chain[h]: fork of the node's block at height h
    malformed,       \* malformed[h]: what validation rejects in the payload of h
    reorgs,          \* reorganizations so far
    \* ---- database (durable)
    blocks,          \* blocks[id]: number of Block rows with this id
    sync,            \* the SyncStatus row
    \* ---- IndexerService (volatile)
    sequential_steps, \* self.config['sequential_steps']
    is_running, current_height, target_height,
    mpc,             \* position of start()/_run_indexer/_process_height_range
    err,             \* the exception the control loop caught last, and the
                     \* height it was logged with (0: none)
    win,             \* the window of _process_height_range
    Q,               \* block_queue
    prod,            \* _block_producer
    cons,            \* _block_consumer, one per worker
    \* ---- environment budgets
    faults, crashes,
    \* ---- history
    committedAtCrash, \* the heights whose rows were stored when the process
                     \* was last killed
    \* ---- the layers below, exercised on their own
    fetch,           \* one call of NodeClient.get_blocks_in_range
    ses,             \* one transactional scope of db/database.py
    cache,           \* the response cache of NodeClient: the entry of '/info'
    api,             \* the tables read by the repositories of shark-api, and
                     \* the last call of a repository
    run              \* one call of _process_height or _process_blocks_batch,
                     \* statement by statement

\* The node, the configuration and the history, which no action of the indexer
\* changes.
nodeVars == <<nodeHeight, chain, malformed, reorgs, sequential_steps,
              committedAtCrash>>
dbVars == <<blocks, sync>>
\* The range fetch and the transactional scope under test, idle in the pipeline.
auxVars == <<fetch, ses, cache, api, run>>
vars == <<nodeHeight, chain, malformed, reorgs, blocks, sync, sequential_steps,
          is_running, current_height, target_height, mpc, err, win, Q, prod, cons,
          faults, crashes, committedAtCrash, fetch, ses, cache, api, run>>

\* ---------------------------------------------------------------- database
\* A blocks table whose primary key is not enforced.
HasRowUnchecked(b, id) == FALSE

\* Block.id is the primary key of blocks.
HasRow(b, id) == b[id] > 0

InsertBlock(b, id) == [b EXCEPT ![id] = @ + 1]

\* Number of Block rows stored at a height, whatever their id.
RowsAt(b, h) ==
    LET upTo[f \in Forks] == b[<<h, f>>] + (IF f = 0 THEN 0 ELSE upTo[f - 1])
    IN upTo[MaxReorgs]

\* A row that is created anew whether or not one is stored.
GetOrCreateSyncStatusAnew(s) ==
    [exists |-> TRUE, current_height |-> 0, target_height |-> 0,
     is_syncing |-> FALSE]

\* _get_or_create_sync_status: the row, created with zeros when absent.
GetOrCreateSyncStatus(s) ==
    IF s.exists THEN s
    ELSE [exists |-> TRUE, current_height |-> 0, target_height |-> 0,
          is_syncing |-> FALSE]

\* status.current_height = h on the row of the caller's session.
SetCursor(s, h) == [GetOrCreateSyncStatus(s) EXCEPT !.current_height = h]

\* The payload the node serves for a height: its id, with the height attached.
NodeBlock(h) == <<h, chain[h]>>

\* What validation finds in the payload of a height: nothing, a block the
\* checks of _validate_block_data reject, or a transaction the checks of
\* _validate_transaction_data reject.
Validity == {"none", "block", "tx"}

AllValid == [h \in Heights |-> "none"]

\* ------------------------------------------------------------ _process_height
\* The outcomes of _process_height(h): the block is fetched, validated and its
\* rows and the cursor are written in one session that commits once; any
\* exception rolls the session back and is re-raised.
ProcessHeightCommitNoCursor(b, s, id) ==
    [err |-> "none", blocks |-> InsertBlock(b, id), sync |-> s, cost |-> 0]

ProcessHeightCommit(b, s, id) ==
    [err |-> "none", blocks |-> InsertBlock(b, id), sync |-> SetCursor(s, id[1]),
     cost |-> 0]

ProcessHeightOutcomes(h) ==
    (IF malformed[h] # "none"
        THEN {[err |-> "malformed", blocks |-> blocks, sync |-> sync, cost |-> 0]}
        ELSE IF HasRow(blocks, NodeBlock(h))
        THEN {[err |-> "dup", blocks |-> blocks, sync |-> sync, cost |-> 0]}
        ELSE {ProcessHeightCommit(blocks, sync, NodeBlock(h))})
    \cup
    (IF faults < MaxFaults
        THEN {[err |-> e, blocks |-> blocks, sync |-> sync, cost |-> 1] :
                 e \in {"node", "db"}}
        ELSE {})

\* ------------------------------------------------------------------- initial
IdleProducer == [pc |-> "idle", cur |-> 0, last |-> 0, blocks |-> <<>>]

IdleConsumer == [pc |-> "idle", batch |-> <<>>, processed |-> {}, last |-> 0,
                 fails |-> 0, cur |-> NONE, sub |-> 0, final |-> FALSE,
                 gotNone |-> FALSE]

\* A consumer task that has left its loop; its locals are gone.
Exited == [IdleConsumer EXCEPT !.pc = "done", !.gotNone = TRUE]

\* start, end: the window; h: the local current_height of _process_height_range;
\* seqEnd: seq_end_height; sent: sentinels put; queued: blocks put on the
\* queue; lastQueued: the height of the block put last (0: none yet).
NoWindow == [start |-> 0, end |-> 0, h |-> 0, seqEnd |-> 0, sent |-> 0,
             queued |-> 0, lastQueued |-> 0]

\* The fields of a fresh IndexerService after start().
NoError == [kind |-> "none", height |-> 0]

\* No call of get_blocks_in_range is under way.
NoFetch == [pc |-> "idle", from |-> 0, to |-> 0, sem |-> 0, faulty |-> {},
            tasks |-> <<>>, result |-> <<>>]

\* No transactional scope is open. ctx: the context manager entered; added:
\* the rows of session.add() not yet flushed; flushed: the rows sent to the
\* database in the open transaction; exc: the exception in flight; commits,
\* rollbacks, closes: calls of session.commit(), rollback(), close() that have
\* returned; result: how the `async with` statement ended.
NoSession == [pc |-> "idle", ctx |-> "none", added |-> <<>>, flushed |-> <<>>,
              exc |-> "none", commits |-> 0, rollbacks |-> 0, closes |-> 0,
              result |-> "none"]

\* Nothing is cached: no response of '/info' was stored, or the entry expired.
NoCache == [valid |-> FALSE, fullHeight |-> 0]

\* Empty tables outputs and blocks (rows), and no call of a repository yet.
\* result: the exception the call raised ("none": it returned), and what it
\* returned: the confirmed balance or the scalar of the block lookup.
NoApi == [outputs |-> <<>>, rows |-> <<>>, call |-> "none", address |-> "none",
          height |-> 0,
          result |-> [exc |-> "none", confirmed |-> 0, block |-> "none"]]

\* No call is under way. op: the method called; pc: where it is; sessions:
\* the database sessions it holds open; batch, sub, i: the sorted mini-batch,
\* the sub-batch and the block in it that is next; stmts: the INSERT statements
\* sent in the transaction that is open or was committed last; known: the
\* addresses that have an AddressStats row; bulk_insert: config['bulk_insert']
\* of the service; rows: the transaction-level rows that the last call of
\* _process_height committed, by table.
NoRun == [op |-> "none", pc |-> "idle", height |-> 0, sessions |-> 0,
          batch |-> <<>>, sub |-> 0, i |-> 0, stmts |-> <<>>, known |-> {},
          bulk_insert |-> TRUE,
          rows |-> [transactions |-> {}, inputs |-> {}, outputs |-> {},
                    mining_rewards |-> {}]]

VolatileInit ==
    /\ is_running = TRUE
    /\ current_height = 0
    /\ target_height = 0
    /\ mpc = "tick"
    /\ err = NoError
    /\ win = NoWindow
    /\ Q = <<>>
    /\ prod = IdleProducer
    /\ cons = [c \in Workers |-> IdleConsumer]

\* The node, the empty database and a fresh IndexerService.
InitStore ==
    /\ nodeHeight = 0
    /\ chain = [h \in Heights |-> 0]
    /\ reorgs = 0
    /\ sequential_steps \in SequentialStepsValues
    /\ blocks = [id \in BlockIds |-> 0]
    /\ sync = [exists |-> FALSE, current_height |-> 0, target_height |-> 0,
               is_syncing |-> FALSE]
    /\ VolatileInit
    /\ crashes = 0
    /\ committedAtCrash = {}
    /\ fetch = NoFetch
    /\ ses = NoSession
    /\ cache = NoCache
    /\ api = NoApi
    /\ run = NoRun

\* A node whose payloads all pass validation.
InitState ==
    /\ InitStore
    /\ malformed = AllValid

Init ==
    /\ InitState
    /\ faults = 0

\* ------------------------------------------------------------- control loop
\* dynamic_batch_size and blocks_to_process of _run_indexer.
\* A batch size that is not capped by the configured one.
DynamicBatchSizeUncapped(batch_size, remaining) ==
    Max(10, Min(remaining,
                IF remaining > 1000 THEN batch_size * 2 ELSE batch_size))

DynamicBatchSize(batch_size, remaining) ==
    Min(batch_size,
        Max(10, Min(remaining,
                    IF remaining > 1000 THEN batch_size * 2 ELSE batch_size)))

BlocksToProcess(batch_size, remaining) ==
    Min(DynamicBatchSize(batch_size, remaining), remaining)

\* asyncio.Queue(maxsize=batch_size * 2)
QueueCapacity == BatchSize * 2

\* Tasks and queue of a window that is over (or was never started).
NoTasks ==
    /\ Q' = <<>>
    /\ prod' = IdleProducer
    /\ cons' = [c \in Workers |-> IdleConsumer]

\* The control loop catches an exception: errors += 1, sleep(5).
Raise(e, h) ==
    /\ mpc' = "backoff"
    /\ err' = [kind |-> e, height |-> h]
    /\ win' = NoWindow
    /\ NoTasks

\* `while self.is_running` followed by _update_sync_status.
TickUpdate ==
    /\ mpc = "tick"
    /\ IF ~is_running
       THEN /\ mpc' = "stopped"
            /\ UNCHANGED <<auxVars, nodeVars, dbVars, is_running, current_height,
                           target_height, err, win, Q, prod, cons, faults,
                           crashes>>
       ELSE \/ \E n \in nodeHeight..MaxHeight :
                 \* node_height = await get_current_height(); the row is read
                 \* and target_height, is_syncing are written in one session.
                 /\ nodeHeight' = n
                 /\ target_height' = n
                 /\ current_height' = GetOrCreateSyncStatus(sync).current_height
                 /\ sync' = [GetOrCreateSyncStatus(sync) EXCEPT
                                !.target_height = n, !.is_syncing = is_running]
                 /\ mpc' = "decide"
                 /\ UNCHANGED <<auxVars, chain, malformed, reorgs,
                                sequential_steps, committedAtCrash,
                                blocks, is_running,
                                err, win, Q, prod, cons, faults, crashes>>
            \/ \* the node does not answer: nothing is assigned
               /\ faults < MaxFaults
               /\ faults' = faults + 1
               /\ Raise("node", 0)
               /\ UNCHANGED <<auxVars, nodeVars, dbVars, is_running, current_height,
                              target_height, crashes>>
            \/ \* the session fails: the in-memory fields are already assigned
               /\ faults < MaxFaults
               /\ faults' = faults + 1
               /\ target_height' = nodeHeight
               /\ \E created \in BOOLEAN :
                    /\ sync' = IF created THEN GetOrCreateSyncStatus(sync) ELSE sync
                    /\ current_height' = IF created
                                         THEN GetOrCreateSyncStatus(sync).current_height
                                         ELSE current_height
               /\ Raise("db", 0)
               /\ UNCHANGED <<auxVars, nodeVars, blocks, is_running, crashes>>

\* The body of the loop between _update_sync_status and the first await.
Decide ==
    /\ mpc = "decide"
    /\ IF current_height >= target_height
       THEN \* caught up: sleep(10), continue
            /\ mpc' = "tick"
            /\ win' = win
       ELSE LET n == BlocksToProcess(BatchSize, target_height - current_height)
                start == current_height + 1
                end == current_height + n
            IN IF ParallelMode /\ n > 1
               THEN \* _process_height_range(start, end)
                    IF sequential_steps > 0 /\ (end - start) > 1
                    THEN /\ mpc' = "prefix"
                         /\ win' = [start |-> start, end |-> end, h |-> start,
                                    seqEnd |-> Min(start + sequential_steps - 1, end),
                                    sent |-> 0, queued |-> 0,
                                    lastQueued |-> 0]
                    ELSE /\ mpc' = "spawn"
                         /\ win' = [start |-> start, end |-> end, h |-> start,
                                    seqEnd |-> 0, sent |-> 0, queued |-> 0,
                                    lastQueued |-> 0]
               ELSE /\ mpc' = "seq"
                    /\ win' = [start |-> start, end |-> start, h |-> start,
                               seqEnd |-> 0, sent |-> 0, queued |-> 0,
                                    lastQueued |-> 0]
    /\ UNCHANGED <<auxVars, nodeVars, dbVars, is_running, current_height, target_height,
                   err, Q, prod, cons, faults, crashes>>

\* await self._process_height(self.current_height + 1) in the control loop.
SeqStep ==
    /\ mpc = "seq"
    /\ \E o \in ProcessHeightOutcomes(current_height + 1) :
         /\ blocks' = o.blocks
         /\ sync' = o.sync
         /\ faults' = faults + o.cost
         /\ IF o.err = "none"
            THEN /\ current_height' = current_height + 1
                 /\ mpc' = "tick"
                 /\ win' = NoWindow
                 /\ UNCHANGED <<err, Q, prod, cons>>
            ELSE /\ Raise(o.err, current_height + 1)
                 /\ UNCHANGED current_height
    /\ UNCHANGED <<auxVars, nodeVars, is_running, target_height, crashes>>

\* One iteration of the sequential prefix of _process_height_range.
PrefixStep ==
    /\ mpc = "prefix"
    /\ \E o \in ProcessHeightOutcomes(win.h) :
         /\ blocks' = o.blocks
         /\ sync' = o.sync
         /\ faults' = faults + o.cost
         /\ IF o.err = "none"
            THEN /\ win' = [win EXCEPT !.h = @ + 1]
                 /\ mpc' = IF win.h < win.seqEnd THEN "prefix"
                           ELSE IF win.h + 1 > win.end THEN "prefixWrite"
                           ELSE "spawn"
                 /\ UNCHANGED <<err, Q, prod, cons>>
            ELSE Raise(o.err, win.h)
    /\ UNCHANGED <<auxVars, nodeVars, is_running, current_height, target_height, crashes>>

\* A session that only writes status.current_height = end_height.
CursorWrite(next) ==
    \/ /\ sync' = SetCursor(sync, win.end)
       /\ mpc' = next
       /\ UNCHANGED <<err, win, faults>>
       /\ NoTasks
    \/ /\ faults < MaxFaults
       /\ faults' = faults + 1
       /\ Raise("db", 0)
       /\ UNCHANGED sync

\* The window was processed sequentially as a whole: cursor write and return.
PrefixWrite ==
    /\ mpc = "prefixWrite"
    /\ CursorWrite("after")
    /\ UNCHANGED <<auxVars, nodeVars, blocks, is_running, current_height, target_height,
                   crashes>>

\* The queue, the producer task and the consumer tasks are created.
Spawn ==
    /\ mpc = "spawn"
    /\ mpc' = "produce"
    /\ Q' = <<>>
    /\ prod' = [pc |-> "loop", cur |-> win.h, last |-> 0, blocks |-> <<>>]
    /\ cons' = [c \in Workers |-> [IdleConsumer EXCEPT !.pc = "start"]]
    /\ UNCHANGED <<auxVars, nodeVars, dbVars, is_running, current_height, target_height,
                   err, win, faults, crashes>>

\* await producer_task, then one None per consumer is put on the queue.
PutSentinel ==
    /\ mpc = "produce"
    /\ prod.pc = "done"
    /\ Len(Q) < QueueCapacity
    /\ Q' = Append(Q, NONE)
    /\ win' = [win EXCEPT !.sent = @ + 1]
    /\ mpc' = IF win.sent + 1 = MaxWorkers THEN "gather" ELSE "produce"
    /\ UNCHANGED <<auxVars, nodeVars, dbVars, is_running, current_height, target_height,
                   err, prod, cons, faults, crashes>>

\* await asyncio.gather(*consumer_tasks), then the end-of-window cursor write.
WindowWrite ==
    /\ mpc = "gather"
    /\ \A c \in Workers : cons[c].pc = "done"
    /\ CursorWrite("after")
    /\ UNCHANGED <<auxVars, nodeVars, blocks, is_running, current_height, target_height,
                   crashes>>

\* _process_height_range has returned: self.current_height += blocks_to_process.
AfterWindow ==
    /\ mpc = "after"
    /\ current_height' = current_height + (win.end - win.start + 1)
    /\ mpc' = "tick"
    /\ win' = NoWindow
    /\ UNCHANGED <<auxVars, nodeVars, dbVars, is_running, target_height, err, Q, prod,
                   cons, faults, crashes>>

\* asyncio.sleep(5) after an exception.
Backoff ==
    /\ mpc = "backoff"
    /\ mpc' = "tick"
    /\ err' = NoError
    /\ UNCHANGED <<auxVars, nodeVars, dbVars, is_running, current_height, target_height,
                   win, Q, prod, cons, faults, crashes>>

\* stop(): clears is_running.
Stop ==
    /\ is_running
    /\ mpc # "stopped"
    /\ is_running' = FALSE
    /\ UNCHANGED <<auxVars, nodeVars, dbVars, current_height, target_height, mpc, err,
                   win, Q, prod, cons, faults, crashes>>

\* The process is killed and started again: only the database survives.
Crash ==
    /\ crashes < MaxCrashes
    /\ crashes' = crashes + 1
    /\ is_running' = TRUE
    /\ current_height' = 0
    /\ target_height' = 0
    /\ mpc' = "tick"
    /\ err' = NoError
    /\ win' = NoWindow
    /\ NoTasks
    /\ committedAtCrash' = {h \in Heights : RowsAt(blocks, h) > 0}
    /\ UNCHANGED <<auxVars, nodeHeight, chain, malformed, reorgs,
                   sequential_steps, dbVars, faults>>

\* ------------------------------------------------------------------ producer
\* The heights of a range in ascending order.
RECURSIVE RangeSeq(_, _)
RangeSeq(a, b) == IF a > b THEN <<>> ELSE <<a>> \o RangeSeq(a + 1, b)

\* The subsequence of a sequence of heights that is not in a set.
RECURSIVE Without(_, _)
Without(seq, D) ==
    IF seq = <<>> THEN <<>>
    ELSE IF Head(seq) \in D THEN Without(Tail(seq), D)
    ELSE <<Head(seq)>> \o Without(Tail(seq), D)

\* Insertion of a payload into a sequence sorted by height (list.sort is stable).
RECURSIVE InsertSorted(_, _)
InsertSorted(x, seq) ==
    IF seq = <<>> THEN <<x>>
    ELSE IF x[1] < Head(seq)[1] THEN <<x>> \o seq
    ELSE <<Head(seq)>> \o InsertSorted(x, Tail(seq))

\* blocks.sort(key=lambda b: b.get('height', 0))
RECURSIVE SortByHeight(_)
SortByHeight(seq) ==
    IF seq = <<>> THEN <<>>
    ELSE InsertSorted(seq[Len(seq)], SortByHeight(SubSeq(seq, 1, Len(seq) - 1)))

\* get_blocks_in_range(a, b) when the fetches of the heights in D fail after
\* all retries: the failures are filtered out, the rest is sorted by height.
GetBlocksInRange(a, b, D) ==
    LET hs == Without(RangeSeq(a, b), D)
    IN SortByHeight([i \in 1..Len(hs) |-> NodeBlock(hs[i])])

\* adjusted_batch_size = min(fetch_batch_size, 20)
AdjustedBatchSize == Min(FetchBatchSize, 20)

\* A producer that fetches the end of its range again.
ProducerAdvanceStuck(batch_end) == batch_end

\* current_height = batch_end + 1
ProducerAdvance(batch_end) == batch_end + 1

\* The loop test of _block_producer and the fetch of one micro-batch.
ProducerFetch ==
    /\ prod.pc = "loop"
    /\ IF prod.cur <= win.end /\ is_running
       THEN LET remaining == win.end - prod.cur + 1
                batch_end == prod.cur + Min(AdjustedBatchSize, remaining) - 1
            IN \E D \in SUBSET (prod.cur..batch_end) :
                 /\ Cardinality(D) <= MaxFaults - faults
                 /\ faults' = faults + Cardinality(D)
                 /\ prod' = [prod EXCEPT
                               !.pc = "put", !.last = batch_end,
                               !.blocks = GetBlocksInRange(prod.cur, batch_end, D)]
       ELSE /\ prod' = [prod EXCEPT !.pc = "done"]
            /\ UNCHANGED faults
    /\ UNCHANGED <<auxVars, nodeVars, dbVars, is_running, current_height, target_height,
                   mpc, err, win, Q, cons, crashes>>

\* `for block in blocks: if not self.is_running: break; await queue.put(block)`
\* and, when the loop is left, the advance to the next range.
ProducerPut ==
    /\ prod.pc = "put"
    /\ IF prod.blocks = <<>> \/ ~is_running
       THEN /\ prod' = [prod EXCEPT !.pc = "loop", !.blocks = <<>>,
                                    !.cur = ProducerAdvance(prod.last)]
            /\ Q' = Q
            /\ win' = win
       ELSE /\ Len(Q) < QueueCapacity
            /\ Q' = Append(Q, Head(prod.blocks))
            /\ prod' = [prod EXCEPT !.blocks = Tail(@)]
            /\ win' = [win EXCEPT !.queued = @ + 1,
                                  !.lastQueued = Head(prod.blocks)[1]]
    /\ UNCHANGED <<auxVars, nodeVars, dbVars, is_running, current_height, target_height,
                   mpc, err, cons, faults, crashes>>

\* ----------------------------------------------------------------- consumers
\* batch_max_size = min(db_batch_size, 5)
BatchMaxSize == Min(DbBatchSize, 5)

\* sub_batch_size = min(5, max(1, block_count // 2))
SubBatchSize(n) == Min(5, Max(1, n \div 2))

\* sub_batches[k] of a sorted batch (k from 1).
SubBatch(sorted, k) ==
    LET sz == SubBatchSize(Len(sorted))
    IN SubSeq(sorted, (k - 1) * sz + 1, Min(k * sz, Len(sorted)))

SubBatchCount(n) == (n + SubBatchSize(n) - 1) \div SubBatchSize(n)

HeightsOf(seq) == {seq[i][1] : i \in 1..Len(seq)}

\* The ordering guard: the block is handled alone when its parent was neither
\* processed by this consumer nor below the cursor read at the start.
OrderingGuard(k, h) ==
    /\ h > k.last + 1
    /\ (h - 1) \notin k.processed
    /\ (h - 1) > k.last

\* The Block rows of one sub-batch, added to one session in order.
RECURSIVE InsertAll(_, _)
InsertAll(b, seq) ==
    IF seq = <<>> THEN b ELSE InsertAll(InsertBlock(b, Head(seq)), Tail(seq))

\* A primary key of the sub-batch is already stored, or occurs twice in it.
RECURSIVE HasDuplicate(_, _)
HasDuplicate(b, seq) ==
    IF seq = <<>> THEN FALSE
    ELSE HasRow(b, Head(seq)) \/ HasDuplicate(InsertBlock(b, Head(seq)), Tail(seq))

\* The blocks of a sub-batch whose Block row is added to the session: a block
\* that _validate_block_data rejects is logged and skipped (`continue`); a
\* block with a transaction that _validate_transaction_data rejects has its
\* Block row added before its transactions are looked at, and stays.
Validated(sub) == SelectSeq(sub, LAMBDA x : malformed[x[1]] # "block")

\* One multi_block_transaction of _process_blocks_batch: the rows of the
\* sub-batch are committed together; the cursor is not written.
SubBatchOutcomes(sub) ==
    (IF HasDuplicate(blocks, Validated(sub))
        THEN {[err |-> "dup", blocks |-> blocks, cost |-> 0]}
        ELSE {[err |-> "none", blocks |-> InsertAll(blocks, Validated(sub)),
               cost |-> 0]})
    \cup
    (IF faults < MaxFaults
        THEN {[err |-> "db", blocks |-> blocks, cost |-> 1]}
        ELSE {})

\* `for block in batch: try: await self._process_height(height) ...` after
\* max_consecutive_failures failed batches: <<blocks, sync, processed heights>>.
RECURSIVE Individually(_, _, _, _)
Individually(b, s, done, seq) ==
    IF seq = <<>> THEN <<b, s, done>>
    ELSE LET h == Head(seq)[1]
             id == NodeBlock(h)
         IN IF HasRow(b, id) \/ malformed[h] # "none"
            THEN Individually(b, s, done, Tail(seq))
            ELSE Individually(InsertBlock(b, id), SetCursor(s, h),
                              done \cup {h}, Tail(seq))

\* The consumer reads the cursor once, before its loop.
ConsumerStart(c) ==
    /\ cons[c].pc = "start"
    /\ cons' = [cons EXCEPT ![c].pc = "get",
                            ![c].last = GetOrCreateSyncStatus(sync).current_height]
    /\ sync' = GetOrCreateSyncStatus(sync)
    /\ UNCHANGED <<auxVars, nodeVars, blocks, is_running, current_height, target_height,
                   mpc, err, win, Q, prod, faults, crashes>>

\* queue.get() returns: the sentinel, a block for the solo path, or a block
\* for the mini-batch followed by the test whether the batch is to be flushed.
ConsumerGet(c) ==
    /\ cons[c].pc = "get"
    /\ Q # <<>>
    /\ Q' = Tail(Q)
    /\ LET x == Head(Q)
           k == cons[c]
       IN IF x = NONE
          THEN cons' = [cons EXCEPT ![c] =
                          IF k.batch # <<>>
                          THEN [k EXCEPT !.gotNone = TRUE, !.pc = "flush",
                                         !.final = TRUE, !.sub = 1,
                                         !.batch = SortByHeight(k.batch)]
                          ELSE Exited]
          ELSE IF OrderingGuard(k, x[1])
          THEN cons' = [cons EXCEPT ![c].pc = "solo", ![c].cur = x]
          ELSE \E batch_timeout \in BOOLEAN :
                 LET batch == Append(k.batch, x)
                     flush == Len(batch) >= BatchMaxSize \/ batch_timeout
                 IN cons' = [cons EXCEPT
                               ![c].batch = IF flush THEN SortByHeight(batch)
                                            ELSE batch,
                               ![c].pc = IF flush THEN "flush" ELSE "get",
                               ![c].sub = IF flush THEN 1 ELSE 0]
    /\ UNCHANGED <<auxVars, nodeVars, dbVars, is_running, current_height, target_height,
                   mpc, err, win, prod, faults, crashes>>

\* queue.get() times out with blocks waiting in the mini-batch for over 5 s.
ConsumerTimeout(c) ==
    /\ cons[c].pc = "get"
    /\ Q = <<>>
    /\ cons[c].batch # <<>>
    /\ cons' = [cons EXCEPT ![c].pc = "flush", ![c].sub = 1,
                            ![c].batch = SortByHeight(cons[c].batch)]
    /\ UNCHANGED <<auxVars, nodeVars, dbVars, is_running, current_height, target_height,
                   mpc, err, win, Q, prod, faults, crashes>>

\* The block is committed alone: `await self._process_height(block_height)`.
\* An exception reaches the consumer's outer handler, which drops the batch.
ConsumerSolo(c) ==
    /\ cons[c].pc = "solo"
    /\ \E o \in ProcessHeightOutcomes(cons[c].cur[1]) :
         /\ blocks' = o.blocks
         /\ sync' = o.sync
         /\ faults' = faults + o.cost
         /\ IF o.err = "none"
            THEN cons' = [cons EXCEPT
                            ![c].pc = "get", ![c].cur = NONE, ![c].fails = 0,
                            ![c].processed = @ \cup {cons[c].cur[1]}]
            ELSE cons' = [cons EXCEPT
                            ![c].pc = "get", ![c].cur = NONE, ![c].batch = <<>>]
    /\ UNCHANGED <<auxVars, nodeVars, is_running, current_height, target_height, mpc, err,
                   win, Q, prod, crashes>>

\* What the consumer does when _process_blocks_batch has returned.
FlushReturned(k) ==
    IF k.final
    THEN Exited
    ELSE [k EXCEPT !.pc = "get", !.batch = <<>>, !.sub = 0, !.fails = 0,
                   !.processed = @ \cup HeightsOf(k.batch)]

\* What the consumer does when _process_blocks_batch has raised: after the
\* sentinel the outer handler drops the batch and the loop goes on; otherwise
\* the failure is counted.
FlushRaised(k) ==
    IF k.final
    THEN [k EXCEPT !.pc = "get", !.batch = <<>>, !.sub = 0, !.final = FALSE]
    ELSE [k EXCEPT !.pc = "get", !.batch = <<>>, !.sub = 0,
                   !.fails = IF k.fails + 1 >= MaxConsecutiveFailures
                             THEN 0 ELSE k.fails + 1]

\* One sub-batch of _process_blocks_batch(batch), and its return or raise.
ConsumerFlush(c) ==
    /\ cons[c].pc = "flush"
    /\ LET k == cons[c]
       IN \E o \in SubBatchOutcomes(SubBatch(k.batch, k.sub)) :
            /\ faults' = faults + o.cost
            /\ IF o.err = "none"
               THEN /\ blocks' = o.blocks
                    /\ sync' = sync
                    /\ cons' = [cons EXCEPT ![c] =
                                  IF k.sub < SubBatchCount(Len(k.batch))
                                  THEN [k EXCEPT !.sub = @ + 1]
                                  ELSE FlushReturned(k)]
               ELSE IF ~k.final /\ k.fails + 1 >= MaxConsecutiveFailures
               THEN LET r == Individually(blocks, sync, k.processed, k.batch)
                    IN /\ blocks' = r[1]
                       /\ sync' = r[2]
                       /\ cons' = [cons EXCEPT ![c] =
                                     [FlushRaised(k) EXCEPT !.processed = r[3]]]
               ELSE /\ blocks' = blocks
                    /\ sync' = sync
                    /\ cons' = [cons EXCEPT ![c] = FlushRaised(k)]
    /\ UNCHANGED <<auxVars, nodeVars, is_running, current_height, target_height, mpc, err,
                   win, Q, prod, crashes>>

\* --------------------------------------------------------------- node client
\* pipeVars: the pipeline, which a call of the node client leaves alone.
pipeVars == <<nodeHeight, chain, malformed, reorgs, blocks, sync,
              sequential_steps, is_running, current_height, target_height, mpc,
              err, win, Q, prod, cons, faults, crashes, committedAtCrash,
              cache, api, run>>

\* max_concurrent = min(20, total_blocks)
MaxConcurrent(total_blocks) == Min(ConcurrencyCap, total_blocks)

\* fetch_block_with_retry(height) before its first pass of the loop.
\* pc: "wait" for the semaphore, "at" in _request('/blocks/at/{height}'),
\* "block" in _request('/blocks/{id}'), "ok" returned a block, "failed"
\* returned an Exception; retries, backoff, waits, last_error: the locals of
\* the _request under way and the sleeps it has made (last_error is kept as
\* the exception e of fetch_block_with_retry once the request has raised);
\* attempts: the HTTP attempts made for '/blocks/at/{height}' in this call of
\* get_blocks_in_range, counted up to NodeRetries + 1.
NewTask == [pc |-> "wait", retry_count |-> 0, retries |-> 0, backoff |-> 0,
            waits |-> <<>>, attempts |-> 0, last_error |-> "none"]

\* The locals of _request at its start.
EnterRequest(t, stage) ==
    [t EXCEPT !.pc = stage, !.retries = NodeRetries, !.backoff = 1,
              !.waits = <<>>, !.last_error = "none"]

\* A semaphore that lets every task in.
SemaphoreOpen(sem, total_blocks) == TRUE

\* `async with semaphore` can be entered.
SemaphoreFree(sem, total_blocks) == sem < MaxConcurrent(total_blocks)

\* get_blocks_in_range(start_height, end_height) is called.
FetchCall ==
    /\ fetch.pc = "idle"
    /\ \E a \in Heights, b \in Heights :
         /\ b - a < MaxRange
         /\ IF a > b
            THEN fetch' = [NoFetch EXCEPT !.pc = "raised", !.from = a, !.to = b]
            ELSE \E F \in SUBSET (a..b) :
                    /\ Cardinality(F) <= MaxFaultyHeights
                    /\ fetch' = [NoFetch EXCEPT
                                    !.pc = "running", !.from = a, !.to = b,
                                    !.faulty = F,
                                    !.tasks = [h \in a..b |-> NewTask]]
    /\ UNCHANGED <<pipeVars, ses>>

\* A task enters the semaphore and get_block_by_height starts its first request.
TaskAcquire(h) ==
    /\ fetch.pc = "running"
    /\ h \in DOMAIN fetch.tasks
    /\ fetch.tasks[h].pc = "wait"
    /\ SemaphoreFree(fetch.sem, fetch.to - fetch.from + 1)
    /\ fetch' = [fetch EXCEPT !.sem = @ + 1,
                              !.tasks[h] = EnterRequest(@, "at")]
    /\ UNCHANGED <<pipeVars, ses>>

\* The except clause of _request: ClientError and ValueError alike count one
\* retry down; with retries left the request sleeps and doubles its backoff,
\* otherwise it raises, get_block_by_height re-raises, and
\* fetch_block_with_retry, outside the semaphore again, counts the failure.
RequestFailed(t, e) ==
    LET u == [t EXCEPT !.last_error = e, !.retries = @ - 1]
    IN IF u.retries > 0
       THEN [u EXCEPT !.waits = Append(@, u.backoff), !.backoff = @ * 2]
       ELSE [u EXCEPT !.pc = IF u.retry_count + 1 > FetchMaxRetries
                             THEN "failed" ELSE "wait",
                      !.retry_count = @ + 1,
                      !.backoff = 0, !.waits = <<>>]

\* One pass of the loop of _request: an HTTP attempt and what follows it.
\* e = "client": aiohttp.ClientError; e = "json": the body does not parse.
TaskRequest(h) ==
    /\ fetch.pc = "running"
    /\ h \in DOMAIN fetch.tasks
    /\ fetch.tasks[h].pc \in {"at", "block"}
    /\ LET t == [fetch.tasks[h] EXCEPT
                   !.attempts = IF fetch.tasks[h].pc = "at"
                                THEN Min(@ + 1, NodeRetries + 1) ELSE @]
       IN \/ \* the response parses
             fetch' = IF t.pc = "at"
                      THEN [fetch EXCEPT !.tasks[h] = EnterRequest(t, "block")]
                      ELSE [fetch EXCEPT !.tasks[h] = [t EXCEPT !.pc = "ok"],
                                         !.sem = @ - 1]
          \/ /\ h \in fetch.faulty
             /\ \E e \in {"client", "json"} :
                  LET u == RequestFailed(t, e)
                  IN fetch' = [fetch EXCEPT
                                 !.tasks[h] = u,
                                 !.sem = IF u.pc \in {"wait", "failed"}
                                         THEN @ - 1 ELSE @]
    /\ UNCHANGED <<pipeVars, ses>>

\* gather() is over: the Exceptions are filtered out, the blocks sorted.
FetchReturn ==
    /\ fetch.pc = "running"
    /\ \A h \in DOMAIN fetch.tasks : fetch.tasks[h].pc \in {"ok", "failed"}
    /\ fetch' = [fetch EXCEPT
                   !.pc = "returned",
                   !.result = GetBlocksInRange(fetch.from, fetch.to,
                                 {h \in DOMAIN fetch.tasks :
                                     fetch.tasks[h].pc = "failed"})]
    /\ UNCHANGED <<pipeVars, ses>>

NextFetch ==
    \/ FetchCall
    \/ \E h \in Heights : TaskAcquire(h)
    \/ \E h \in Heights : TaskRequest(h)
    \/ FetchReturn

\* The indexer is constructed and not started; its configuration plays no
\* part in a call of the node client. The client is built without a
\* redis_client (use_cache is False), so every request goes to the node.
InitFetch == Init /\ sequential_steps = BatchSize

\* One call of get_blocks_in_range against a node that may fail.
SpecFetch == InitFetch /\ [][NextFetch]_vars

\* ------------------------------------------------------------ session layer
\* What a transactional scope leaves alone: everything but the store, the
\* database faults and the session.
sesFrame == <<nodeHeight, chain, malformed, reorgs, sync, sequential_steps,
              is_running, current_height, target_height, mpc, err, win, Q, prod,
              cons, crashes, committedAtCrash, fetch, cache, api, run>>

Contexts == {"get_session", "batch_operation_context", "multi_block_transaction"}

\* A row given to a session: its primary key, and whether it holds a foreign
\* key to the row of the height below.
Mappings == {m \in [id : (1..MaxRows) \X {0}, fk : BOOLEAN] : m.fk => m.id[1] > 1}

MappingSeqs(n) == UNION {[1..k -> Mappings] : k \in 0..n}

\* The primary keys the open transaction sees.
Present(b, flushed) ==
    {id \in BlockIds : HasRow(b, id)} \cup {flushed[i].id : i \in 1..Len(flushed)}

\* The constraint an INSERT of m violates when the keys in P are present.
Violation(P, m) ==
    IF m.id \in P THEN "unique"
    ELSE IF m.fk /\ <<m.id[1] - 1, 0>> \notin P THEN "fk"
    ELSE "none"

\* INSERTs of rows, one after the other, into the transaction that holds
\* flushed: the rows sent, and the violation that stopped them.
RECURSIVE InsertRows(_, _, _)
InsertRows(b, flushed, rows) ==
    IF rows = <<>> THEN [flushed |-> flushed, error |-> "none"]
    ELSE LET v == Violation(Present(b, flushed), Head(rows))
         IN IF v # "none" THEN [flushed |-> flushed, error |-> v]
            ELSE InsertRows(b, Append(flushed, Head(rows)), Tail(rows))

\* session.flush(): the rows added are sent.
Flush(b, s) ==
    LET r == InsertRows(b, s.flushed, s.added)
    IN IF r.error = "none"
       THEN [s EXCEPT !.flushed = r.flushed, !.added = <<>>]
       ELSE [s EXCEPT !.flushed = r.flushed, !.exc = "flush"]

\* The fallback of bulk_insert_mappings: session.add() and session.flush()
\* for each mapping, an exception of one of them logged and raised again.
RECURSIVE IndividualInserts(_, _, _)
IndividualInserts(b, s, batch) ==
    IF batch = <<>> THEN s
    ELSE LET t == Flush(b, [s EXCEPT !.added = Append(@, Head(batch))])
         IN IF t.exc # "none" THEN t
            ELSE IndividualInserts(b, t, Tail(batch))

\* bulk_insert_mappings(session, model_class, mappings) on a session that has
\* (has_bulk) or lacks a bulk_insert_mappings method; the mappings are fewer
\* than its batch_size of 500. The session it leaves, exc set when it raises.
BulkInsertMappings(b, s, mappings, has_bulk) ==
    IF mappings = <<>> THEN s
    ELSE IF has_bulk
    THEN LET r == InsertRows(b, s.flushed, mappings)
         IN IF r.error = "none" THEN [s EXCEPT !.flushed = r.flushed]
            ELSE IF r.error = "fk" THEN IndividualInserts(b, s, mappings)
            ELSE [s EXCEPT !.exc = "bulk"]
    ELSE Flush(b, [s EXCEPT !.added = @ \o mappings])

\* `async with` enters a context manager: session = async_session(), and in
\* batch_operation_context (never given a session by its caller) and
\* multi_block_transaction (for more than one block) SET TRANSACTION, which
\* the database may fail.
SessionOpen ==
    /\ ses.pc = "idle"
    /\ \E c \in Contexts :
         \/ /\ ses' = [NoSession EXCEPT !.pc = "body", !.ctx = c]
            /\ UNCHANGED faults
         \/ /\ c # "get_session"
            /\ faults < MaxFaults
            /\ faults' = faults + 1
            /\ ses' = [NoSession EXCEPT !.pc = "except", !.ctx = c, !.exc = "setup"]
    /\ UNCHANGED <<sesFrame, blocks>>

\* The body calls session.add(row).
BodyAdd ==
    /\ ses.pc = "body"
    /\ Len(ses.added) + Len(ses.flushed) < MaxRows
    /\ \E m \in Mappings : ses' = [ses EXCEPT !.added = Append(@, m)]
    /\ UNCHANGED <<sesFrame, blocks, faults>>

\* The body calls bulk_insert_mappings and does not catch what it raises.
BodyBulkInsert ==
    /\ ses.pc = "body"
    /\ \E mappings \in MappingSeqs(MaxRows - Len(ses.added) - Len(ses.flushed)),
          has_bulk \in BOOLEAN :
         LET s == BulkInsertMappings(blocks, ses, mappings, has_bulk)
         IN ses' = IF s.exc # "none" THEN [s EXCEPT !.pc = "except"] ELSE s
    /\ UNCHANGED <<sesFrame, blocks, faults>>

\* The body ends: it returns, it raises an Exception, or its task is
\* cancelled (CancelledError is no Exception and skips the except clause).
BodyEnd ==
    /\ ses.pc = "body"
    /\ \/ ses' = [ses EXCEPT !.pc = "commit"]
       \/ ses' = [ses EXCEPT !.pc = "except", !.exc = "body"]
       \/ ses' = [ses EXCEPT !.pc = "finally", !.exc = "cancelled"]
    /\ UNCHANGED <<sesFrame, blocks, faults>>

\* await session.commit(): the rows added are flushed and the transaction is
\* made durable, unless a row violates a constraint or the database fails.
SessionCommit ==
    /\ ses.pc = "commit"
    /\ LET s == Flush(blocks, ses)
       IN \/ /\ s.exc = "none"
             /\ blocks' = [id \in BlockIds |->
                             blocks[id] + Cardinality({i \in 1..Len(s.flushed) :
                                                         s.flushed[i].id = id})]
             /\ ses' = [s EXCEPT !.pc = "finally", !.flushed = <<>>,
                                 !.commits = @ + 1]
             /\ UNCHANGED faults
          \/ /\ s.exc # "none"
             /\ ses' = [s EXCEPT !.pc = "except"]
             /\ UNCHANGED <<blocks, faults>>
          \/ /\ faults < MaxFaults
             /\ faults' = faults + 1
             /\ ses' = [ses EXCEPT !.pc = "except", !.exc = "commit"]
             /\ UNCHANGED blocks
    /\ UNCHANGED sesFrame

\* An except clause that raises again without a rollback.
SessionNoRollback ==
    /\ ses.pc = "except"
    /\ ses' = [ses EXCEPT !.pc = "finally"]
    /\ UNCHANGED <<sesFrame, blocks, faults>>

\* except Exception: await session.rollback(); raise
SessionRollback ==
    /\ ses.pc = "except"
    /\ ses' = [ses EXCEPT !.pc = "finally", !.added = <<>>, !.flushed = <<>>,
                          !.rollbacks = @ + 1]
    /\ UNCHANGED <<sesFrame, blocks, faults>>

\* finally: await session.close(), which releases a transaction left open;
\* then the `async with` statement ends, by the exception in flight if any.
SessionClose ==
    /\ ses.pc = "finally"
    /\ ses' = [ses EXCEPT !.pc = "exited", !.added = <<>>, !.flushed = <<>>,
                          !.closes = @ + 1,
                          !.result = IF ses.exc = "none" THEN "returned"
                                     ELSE "raised"]
    /\ UNCHANGED <<sesFrame, blocks, faults>>

\* The caller goes on to its next scope.
SessionNext ==
    /\ ses.pc = "exited"
    /\ ses' = NoSession
    /\ UNCHANGED <<sesFrame, blocks, faults>>

NextSession ==
    \/ SessionOpen
    \/ BodyAdd
    \/ BodyBulkInsert
    \/ BodyEnd
    \/ SessionCommit
    \/ SessionRollback
    \/ SessionClose
    \/ SessionNext

\* Transactional scopes, one after the other, on an empty store.
SpecSession == InitFetch /\ [][NextSession]_vars

\* ------------------------------------------------------------ specification
MainStep ==
    \/ TickUpdate
    \/ Decide
    \/ SeqStep
    \/ PrefixStep
    \/ PrefixWrite
    \/ Spawn
    \/ PutSentinel
    \/ WindowWrite
    \/ AfterWindow
    \/ Backoff

ProducerStep == ProducerFetch \/ ProducerPut

ConsumerStep(c) ==
    \/ ConsumerStart(c)
    \/ ConsumerGet(c)
    \/ ConsumerTimeout(c)
    \/ ConsumerSolo(c)
    \/ ConsumerFlush(c)

Next ==
    \/ MainStep
    \/ ProducerStep
    \/ \E c \in Workers : ConsumerStep(c)
    \/ Stop
    \/ Crash

Spec == Init /\ [][Next]_vars

\* get_info() of a client built with a redis_client, when the node is at full
\* height n: _request returns the cached response of '/info' while there is
\* one; otherwise it contacts the node and stores the response.
GetInfoCached(n) ==
    IF cache.valid
    THEN [fullHeight |-> cache.fullHeight, cache |-> cache]
    ELSE [fullHeight |-> n, cache |-> [valid |-> TRUE, fullHeight |-> n]]

\* `while self.is_running` followed by _update_sync_status, on a client with
\* the cache enabled. The node is at height n by now, asked or not.
CachedTickUpdate ==
    /\ mpc = "tick"
    /\ IF ~is_running
       THEN /\ mpc' = "stopped"
            /\ UNCHANGED <<auxVars, nodeVars, dbVars, is_running, current_height,
                           target_height, err, win, Q, prod, cons, faults,
                           crashes>>
       ELSE \/ \E n \in nodeHeight..MaxHeight :
                 /\ nodeHeight' = n
                 /\ target_height' = GetInfoCached(n).fullHeight
                 /\ cache' = GetInfoCached(n).cache
                 /\ current_height' = GetOrCreateSyncStatus(sync).current_height
                 /\ sync' = [GetOrCreateSyncStatus(sync) EXCEPT
                                !.target_height = GetInfoCached(n).fullHeight,
                                !.is_syncing = is_running]
                 /\ mpc' = "decide"
                 /\ UNCHANGED <<fetch, ses, api, run, chain, malformed, reorgs,
                                sequential_steps, committedAtCrash,
                                blocks, is_running,
                                err, win, Q, prod, cons, faults, crashes>>
            \/ \* nothing is cached and the node does not answer
               /\ ~cache.valid
               /\ faults < MaxFaults
               /\ faults' = faults + 1
               /\ Raise("node", 0)
               /\ UNCHANGED <<auxVars, nodeVars, dbVars, is_running, current_height,
                              target_height, crashes>>
            \/ \* the session fails: the in-memory fields are already assigned
               /\ faults < MaxFaults
               /\ faults' = faults + 1
               /\ target_height' = GetInfoCached(nodeHeight).fullHeight
               /\ cache' = GetInfoCached(nodeHeight).cache
               /\ \E created \in BOOLEAN :
                    /\ sync' = IF created THEN GetOrCreateSyncStatus(sync) ELSE sync
                    /\ current_height' = IF created
                                         THEN GetOrCreateSyncStatus(sync).current_height
                                         ELSE current_height
               /\ Raise("db", 0)
               /\ UNCHANGED <<fetch, ses, api, run, nodeVars, blocks, is_running,
                              crashes>>

\* The entry of '/info' is older than cache_ttl.
CacheExpire ==
    /\ cache.valid
    /\ cache' = NoCache
    /\ UNCHANGED <<fetch, ses, api, run, nodeVars, dbVars, is_running,
                   current_height, target_height, mpc, err, win, Q, prod, cons,
                   faults, crashes>>

NextCache ==
    \/ CachedTickUpdate
    \/ CacheExpire
    \/ Decide
    \/ SeqStep
    \/ PrefixStep
    \/ PrefixWrite
    \/ Spawn
    \/ PutSentinel
    \/ WindowWrite
    \/ AfterWindow
    \/ Backoff
    \/ ProducerStep
    \/ \E c \in Workers : ConsumerStep(c)

\* The pipeline on a node client that caches responses.
SpecCache == Init /\ [][NextCache]_vars

\* The node switches to another chain above height k. It is observed while the
\* control loop sleeps between two ticks.
NodeReorg ==
    /\ reorgs < MaxReorgs
    /\ mpc \in {"tick", "backoff"}
    /\ \E k \in 1..(nodeHeight - 1) :
         chain' = [h \in Heights |->
                      IF h > k /\ h <= nodeHeight THEN reorgs + 1 ELSE chain[h]]
    /\ reorgs' = reorgs + 1
    /\ UNCHANGED <<auxVars, nodeHeight, malformed, sequential_steps,
                   committedAtCrash, dbVars,
                   is_running, current_height, target_height, mpc, err, win, Q,
                   prod, cons, faults, crashes>>

NextReorg == Next \/ NodeReorg

\* The pipeline against a node that may reorganize.
SpecReorg == Init /\ [][NextReorg]_vars

\* A node and a database that answer (the failures a behaviour may inject are
\* used up from the start) and no stop() request: the process may still be
\* killed and restarted. Every task that can run eventually runs: the control
\* loop, the producer and each consumer are asyncio tasks of one event loop.
InitAnswering ==
    /\ InitState
    /\ faults = MaxFaults

NextAnswering ==
    \/ MainStep
    \/ ProducerStep
    \/ \E c \in Workers : ConsumerStep(c)
    \/ Crash

FairSpec ==
    /\ InitAnswering
    /\ [][NextAnswering]_vars
    /\ WF_vars(MainStep)
    /\ WF_vars(ProducerStep)
    /\ \A c \in Workers : WF_vars(ConsumerStep(c))

\* A node that serves, at one height, a payload that validation rejects; the
\* node and the database answer every call, and nothing stops the indexer.
InitMalformed ==
    /\ InitStore
    /\ malformed \in {m \in [Heights -> Validity] :
                        Cardinality({h \in Heights : m[h] # "none"}) = 1}
    /\ faults = MaxFaults

NextRunning ==
    \/ MainStep
    \/ ProducerStep
    \/ \E c \in Workers : ConsumerStep(c)

SpecMalformed == InitMalformed /\ [][NextRunning]_vars

\* A node and a database that may fail a bounded number of times and then
\* answer; no stop() request and no kill. Every task that can run eventually
\* runs.
FairFaultSpec ==
    /\ Init
    /\ [][NextRunning]_vars
    /\ WF_vars(MainStep)
    /\ WF_vars(ProducerStep)
    /\ \A c \in Workers : WF_vars(ConsumerStep(c))

\* =================================================================== claims

\* C1 (cursor completeness): in every reachable durable state, if
\* SyncStatus.current_height = H then exactly one main-chain Block row is
\* stored for every height 1..H.
C1_CursorComplete ==
    \A h \in 1..sync.current_height : RowsAt(blocks, h) = 1
\* C2 (durability): once the rows of height h are committed, a kill at any
\* later point followed by a restart makes every window of the restarted
\* indexer start at a height >= h + 1, so that h is never inserted again.
C2_Durability ==
    mpc \in {"seq", "prefix", "spawn"} =>
        \A h \in committedAtCrash : win.start >= h + 1

\* The committed state of an uninterrupted run: the cursor is at the node's
\* height and exactly one Block row is stored for every height up to it.
Converged ==
    /\ sync.current_height = nodeHeight
    /\ \A h \in Heights : RowsAt(blocks, h) = (IF h <= nodeHeight THEN 1 ELSE 0)

C4_AscendingCommit ==
    [][/\ \A h \in Heights :
            (h > 1 /\ RowsAt(blocks', h) > RowsAt(blocks, h))
                => RowsAt(blocks', h - 1) >= 1
       /\ sync'.current_height >= sync.current_height]_vars

\* C5 (at-most-once commit): every step that changes the blocks table leaves
\* at most one Block row per block id and per height, and leaves a row that
\* was stored as it is: a later arrival of its height adds nothing.
C5_AtMostOnce ==
    [][blocks' # blocks =>
          \A id \in BlockIds :
             /\ blocks'[id] <= 1
             /\ \A f \in Forks \ {id[2]} :
                   blocks'[id] = 0 \/ blocks'[<<id[1], f>>] = 0
             /\ blocks[id] = 1 => blocks'[id] = 1]_vars

\* A second arrival of a stored height was rejected by the primary key.
C5_Witness ==
    /\ mpc = "backoff"
    /\ err.kind = "dup"
    /\ blocks[NodeBlock(err.height)] = 1

\* Block payloads fetched and not yet committed or discarded: the producer's
\* micro-batch, the queue, and the consumers' mini-batches and solo blocks.
InFlight ==
    LET held[c \in 0..MaxWorkers] ==
            IF c = 0 THEN 0
            ELSE held[c - 1] + Len(cons[c].batch)
                 + (IF cons[c].cur = NONE THEN 0 ELSE 1)
    IN Len(prod.blocks) + Len(SelectSeq(Q, LAMBDA x : x # NONE)) + held[MaxWorkers]

\* C6 (bounded memory): at every moment the payloads in flight are at most
\* 2 x batch_size, and the queue never holds more than its capacity.
C6_BoundedMemory ==
    /\ InFlight <= 2 * BatchSize
    /\ Len(Q) <= QueueCapacity

\* Payloads are held by the producer, the queue and a consumer at once.
C6_Witness ==
    /\ Len(prod.blocks) >= 1
    /\ Len(SelectSeq(Q, LAMBDA x : x # NONE)) >= 1
    /\ \E c \in Workers : Len(cons[c].batch) >= 1

\* The step is _process_height run by the control loop (sequential path or
\* sequential prefix), not a stop() request or a kill.
MainProcessHeight ==
    /\ mpc \in {"seq", "prefix"}
    /\ is_running' = is_running
    /\ crashes' = crashes

\* C7 (the sequential path is all-or-nothing): _process_height(h) run by the
\* control loop either stores the rows of h and current_height = h in one
\* commit, or stores nothing, leaves the cursor as it was and raises into the
\* control loop, whose next tick starts from the durable cursor again.
C7_SequentialAtomic ==
    [][/\ MainProcessHeight =>
            LET h == IF mpc = "seq" THEN current_height + 1 ELSE win.h
            IN \/ /\ blocks' = InsertBlock(blocks, NodeBlock(h))
                  /\ sync' = [sync EXCEPT !.current_height = h]
                  /\ mpc' # "backoff"
                  /\ err' = NoError
               \/ /\ blocks' = blocks
                  /\ sync' = sync
                  /\ mpc' = "backoff"
                  /\ err'.kind # "none"
                  /\ err'.height = h
       /\ (mpc = "backoff" /\ mpc' # "backoff" /\ crashes' = crashes)
            => (mpc' = "tick" /\ blocks' = blocks /\ sync' = sync)
       /\ mpc' = "decide" => current_height' = sync'.current_height]_vars

\* _process_height failed in the control loop after earlier heights succeeded.
C7_Witness ==
    /\ mpc = "backoff"
    /\ err.kind \in {"node", "db"}
    /\ err.height = sync.current_height + 1
    /\ sync.current_height >= 1
    /\ RowsAt(blocks, err.height) = 0

\* C8 (reorganization recovery): at every tick, after target_height is
\* refreshed and before any block is ingested, the rows stored up to the
\* cursor are the node's blocks: rows of an abandoned fork were deleted and the
\* cursor was reset to the highest height where node and store agree.
C8_ReorgRecovered ==
    mpc = "decide" =>
        \A h \in 1..sync.current_height :
            \A id \in BlockIds :
                (id[1] = h /\ HasRow(blocks, id)) => id = NodeBlock(h)

\* C9 (out-of-order arrival): when every block of the window tail was put on
\* the queue and _process_height_range returns, a Block row is stored for
\* every height of the window and the cursor is the window's end.
C9_WindowComplete ==
    (mpc = "after" /\ win.queued = win.end - win.h + 1) =>
        /\ \A h \in win.start..win.end : RowsAt(blocks, h) >= 1
        /\ sync.current_height = win.end

\* C10 (worker shutdown): a consumer that has taken its sentinel from the
\* queue flushes what is left of its mini-batch and exits, whatever the
\* outcome of that flush.
C10_SentinelExits ==
    \A c \in Workers :
        cons[c].gotNone =>
            \/ cons[c].pc = "done"
            \/ cons[c].pc = "flush" /\ cons[c].final

\* C14 (malformed block): for a height h whose payload fails validation, no
\* row of h is committed and the cursor never reaches h, on the sequential
\* path and in a mini-batch alike.
C14_MalformedNotPassed ==
    \A h \in Heights :
        malformed[h] # "none" =>
            /\ RowsAt(blocks, h) = 0
            /\ sync.current_height < h

\* C15 (escalation of exhausted node failures): a fetch of the producer that
\* comes back without a height of the range it asked for is raised into the
\* control loop; the producer never goes on to queue the heights that follow.
C15_FetchEscalated ==
    [][(/\ prod.pc = "loop"
        /\ prod'.pc = "put"
        /\ Len(prod'.blocks) < prod'.last - prod.cur + 1)
          => mpc' = "backoff"]_vars

\* C12 (failure cascade, level 2): when the flush of a mini-batch ends and
\* the node and the database answer every later call, every block of that
\* mini-batch is stored: either its transaction committed, or, after its
\* failure, each block went through _process_height on its own.
C12_FailedBatchAlone ==
    [][\A c \in Workers :
          (/\ cons[c].pc = "flush"
           /\ cons'[c].pc \in {"get", "done"}
           /\ crashes' = crashes
           /\ faults' = MaxFaults)
             => \A i \in 1..Len(cons[c].batch) :
                   HasRow(blocks', cons[c].batch[i])]_vars

\* A block of the height is on the queue: it has entered the pipeline.
Enqueued(h) == \E i \in 1..Len(Q) : Q[i] # NONE /\ Q[i][1] = h

\* C11 (block life cycle): every block that enters the pipeline is eventually
\* committed (no payload is malformed here); it is not dropped for good after
\* a failed attempt.
C11_LifeCycle == \A h \in Heights : Enqueued(h) ~> (RowsAt(blocks, h) >= 1)

\* C16 (retry bound): a request sleeps 1 s, then 2 s, and no endpoint of a
\* height is tried more than 3 times in one call, whatever the call path.
C16_RetryBound ==
    \A h \in DOMAIN fetch.tasks :
        /\ fetch.tasks[h].waits \in {<<>>, <<1>>, <<1, 2>>}
        /\ fetch.tasks[h].attempts <= NodeRetries

\* C17 (non-retriable parse failure): a height whose response did not parse
\* has failed for good: no attempt for it is pending or under way.
C17_ParseFailureFinal ==
    \A h \in DOMAIN fetch.tasks :
        fetch.tasks[h].last_error = "json" => fetch.tasks[h].pc = "failed"

\* The per-height fetches of the call under way that hold the semaphore.
InFlightFetches == {h \in DOMAIN fetch.tasks : fetch.tasks[h].pc \in {"at", "block"}}

\* C20 (range fetch): never more than min(cap, to - from + 1) per-height
\* fetches are in flight; the blocks returned are strictly ascending by
\* height, each is the node's block of a height of [from, to] it was requested
\* for, no height twice; a call with from > to raises and returns nothing.
C20_RangeFetch ==
    /\ fetch.pc = "running" =>
          Cardinality(InFlightFetches)
              <= MaxConcurrent(fetch.to - fetch.from + 1)
    /\ fetch.pc = "returned" =>
          /\ \A i \in 1..Len(fetch.result) :
                /\ fetch.result[i][1] \in fetch.from..fetch.to
                /\ fetch.tasks[fetch.result[i][1]].pc = "ok"
                /\ fetch.result[i] = NodeBlock(fetch.result[i][1])
          /\ \A i \in 1..(Len(fetch.result) - 1) :
                fetch.result[i][1] < fetch.result[i + 1][1]
    /\ fetch.pc # "idle" => (fetch.pc = "raised" <=> fetch.from > fetch.to)
    /\ fetch.pc = "raised" => fetch.result = <<>>

\* A call over more heights than the cap has returned two blocks or more and
\* left out a height whose fetch failed.
C20_Witness ==
    /\ fetch.pc = "returned"
    /\ fetch.to - fetch.from + 1 > ConcurrencyCap
    /\ Len(fetch.result) >= 2
    /\ \E h \in DOMAIN fetch.tasks : fetch.tasks[h].pc = "failed"

\* The primary keys of the rows a session holds, flushed or not.
SessionKeys(s) ==
    {s.added[i].id : i \in 1..Len(s.added)}
        \cup {s.flushed[i].id : i \in 1..Len(s.flushed)}

C18_BulkFallback ==
    [][\A mappings \in MappingSeqs(MaxRows), has_bulk \in BOOLEAN :
          LET bad == {i \in 1..Len(mappings) :
                         Violation(Present(blocks, ses.flushed)
                                     \cup {mappings[j].id : j \in 1..(i - 1)},
                                   mappings[i]) # "none"}
              s == BulkInsertMappings(blocks, ses, mappings, has_bulk)
          IN (/\ ses.pc = "body"
              /\ ses.added = <<>>
              /\ Len(mappings) >= 2
              /\ Cardinality(bad) = 1
              /\ ses' = (IF s.exc # "none" THEN [s EXCEPT !.pc = "except"] ELSE s))
                => /\ ses'.exc = "none"
                   /\ \A i \in (1..Len(mappings)) \ bad :
                         mappings[i].id \in SessionKeys(ses')]_vars

\* parent_id of the Block row of a block of the node's chain: None at height
\* 1, otherwise header['parentId'], the id of the block one height below.
ParentId(id) ==
    IF id[1] = 1 THEN NONE ELSE NodeBlock(id[1] - 1)

\* C22 (parent linkage): every Block row has parent_id = null exactly when
\* its height is 1, and the row of a height above 1 has a Block row with
\* id = parent_id.
C22_ParentLinkage ==
    \A id \in BlockIds :
        HasRow(blocks, id) =>
            /\ ParentId(id) = NONE <=> id[1] = 1
            /\ id[1] > 1 => HasRow(blocks, ParentId(id))

\* C29 (mini-batch atomicity): a step of _process_blocks_batch that changes
\* the store commits every block of the mini-batch being flushed.
C29_MiniBatchAtomic ==
    [][\A c \in Workers :
          (/\ cons[c].pc = "flush"
           /\ cons'[c] # cons[c]
           /\ blocks' # blocks)
             => \A i \in 1..Len(cons[c].batch) :
                   HasRow(blocks', cons[c].batch[i])]_vars

\* C30 (sequential prefix): when the producer and the consumers of a window
\* of two or more blocks are started with sequential_steps > 0, the heights
\* start .. min(start + sequential_steps - 1, end) are committed.
C30_SequentialPrefix ==
    [][(/\ mpc = "spawn" /\ mpc' = "produce"
        /\ win.end > win.start
        /\ sequential_steps > 0)
          => \A h \in win.start..Min(win.start + sequential_steps - 1, win.end) :
                HasRow(blocks, NodeBlock(h))]_vars

\* ------------------------------------------------------------- transactions
\* blockTransactions.transactions of the node's block id: the coinbase
\* transaction, which pays the reward to the miner, and above height 1 a
\* transaction that spends the reward of the block below into two boxes. An
\* input of the node's payload carries boxId and spendingProof, no value.
NodeTransactions(id) ==
    LET coinbase ==
            [id |-> <<id, 0>>, inputs |-> <<>>,
             outputs |-> <<[boxId |-> <<id, 0, 0>>, value |-> 1000000000,
                            address |-> "miner"]>>]
        spending ==
            [id |-> <<id, 1>>,
             inputs |-> <<[boxId |-> <<ParentId(id), 0, 0>>,
                           spendingProof |-> "proof"]>>,
             outputs |-> <<[boxId |-> <<id, 1, 0>>, value |-> 700000000,
                            address |-> "payee"],
                           [boxId |-> <<id, 1, 1>>, value |-> 299000000,
                            address |-> "miner"]>>]
    IN IF id[1] = 1 THEN <<coinbase>> ELSE <<coinbase, spending>>

\* sum(x.get('value', 0) for x in seq)
RECURSIVE SumValue(_)
SumValue(seq) ==
    IF seq = <<>> THEN 0
    ELSE (IF "value" \in DOMAIN Head(seq) THEN Head(seq).value ELSE 0)
            + SumValue(Tail(seq))

\* The rows that _process_block and _process_transactions_bulk add to the
\* session of a block, by table. The first transaction is the coinbase: fee 0,
\* its inputs are skipped. spent_by_tx_id is None, written <<NONE, 0>>, the
\* id of no transaction. _process_mining_reward has an empty body.
BlockRows(id) ==
    LET txs == NodeTransactions(id)
        Fee(k) == LET fee == SumValue(txs[k].inputs) - SumValue(txs[k].outputs)
                  IN IF k = 1 THEN 0 ELSE IF fee > 0 THEN fee ELSE 0
    IN [transactions |->
            {[id |-> txs[k].id, block_id |-> id, inclusion_height |-> id[1],
              index |-> k - 1, fee |-> Fee(k)] : k \in 1..Len(txs)},
        inputs |->
            UNION {{[box_id |-> txs[k].inputs[j].boxId, tx_id |-> txs[k].id,
                     index_in_tx |-> j - 1] : j \in 1..Len(txs[k].inputs)} :
                   k \in 2..Len(txs)},
        outputs |->
            UNION {{[box_id |-> txs[k].outputs[j].boxId, tx_id |-> txs[k].id,
                     index_in_tx |-> j - 1, value |-> txs[k].outputs[j].value,
                     address |-> txs[k].outputs[j].address,
                     spent_by_tx_id |-> <<NONE, 0>>] :
                        j \in 1..Len(txs[k].outputs)} :
                   k \in 1..Len(txs)},
        mining_rewards |-> {}]

\* The rows of a table in the store b: those committed with the Block rows.
Stored(b, table) ==
    UNION {BlockRows(id)[table] : id \in {i \in BlockIds : HasRow(b, i)}}

\* C21 (input references): every stored Input has its Transaction stored, and
\* an Output with its box_id stored that was produced at a lower inclusion
\* height, or in the same block by a transaction of lower index.
C21_InputReferences ==
    \A i \in Stored(blocks, "inputs") :
        \E t \in Stored(blocks, "transactions") :
            /\ t.id = i.tx_id
            /\ \E o \in Stored(blocks, "outputs") :
                 /\ o.box_id = i.box_id
                 /\ \E p \in Stored(blocks, "transactions") :
                      /\ p.id = o.tx_id
                      /\ \/ p.inclusion_height < t.inclusion_height
                         \/ /\ p.block_id = t.block_id
                            /\ p.index < t.index

\* C23 (spent marking): a stored Output whose box_id is the box of a stored
\* Input has spent_by_tx_id = the id of the Input's transaction.
C23_SpentMarking ==
    \A i \in Stored(blocks, "inputs") :
        \A o \in Stored(blocks, "outputs") :
            o.box_id = i.box_id => o.spent_by_tx_id = i.tx_id

\* C24 (fee): the fee of a non-coinbase transaction committed with its block
\* is max(0, values of the stored outputs its inputs refer to, minus the
\* values of its outputs), 0 if an input's output is not stored; the fee of
\* the coinbase transaction is 0.
C24_Fee ==
    [][\A id \in BlockIds :
          (~HasRow(blocks, id) /\ HasRow(blocks', id)) =>
             \A t \in BlockRows(id).transactions :
                LET tx == NodeTransactions(id)[t.index + 1]
                    boxes == {tx.inputs[j].boxId : j \in 1..Len(tx.inputs)}
                    known == {o \in Stored(blocks, "outputs") : o.box_id \in boxes}
                    spent == IF known = {} THEN 0
                             ELSE (CHOOSE o \in known : TRUE).value
                IN t.fee = IF t.index = 0 THEN 0
                           ELSE IF Cardinality(known) < Cardinality(boxes) THEN 0
                           ELSE Max(0, spent - SumValue(tx.outputs))]_vars

\* C25 (mining reward): every stored Block with a transaction has exactly one
\* MiningReward row, with the value of the first output of its coinbase
\* transaction and that output's address.
C25_MiningReward ==
    \A id \in BlockIds :
        (HasRow(blocks, id) /\ NodeTransactions(id) # <<>>) =>
            /\ Cardinality({r \in Stored(blocks, "mining_rewards") :
                               r.block_id = id}) = 1
            /\ \A r \in Stored(blocks, "mining_rewards") :
                 r.block_id = id =>
                    /\ r.reward_amount = NodeTransactions(id)[1].outputs[1].value
                    /\ r.miner_address = NodeTransactions(id)[1].outputs[1].address

\* C26 (fresh target with the cache enabled): after every tick target_height
\* equals the node's fullHeight at that tick.
C26_FreshTarget ==
    [][(mpc = "tick" /\ mpc' = "decide") => target_height' = nodeHeight']_vars

\* ---------------------------------------------------------- API repositories
\* The mapped columns of the classes Output and Block of shark_api.db.models.
ModelColumns ==
    [Output |-> {"id", "transaction_id", "box_id", "index_in_tx", "value",
                 "creation_height", "address", "ergo_tree",
                 "additional_registers"},
     Block |-> {"id", "height", "timestamp", "difficulty", "block_size",
                "block_coins", "block_mining_time", "txs_count",
                "miner_address", "miner_name", "block_fee",
                "block_chain_total_size", "main_chain", "parent_id",
                "extension_hash", "version", "votes", "ad_proofs_root",
                "state_root", "transactions_root", "pow_solutions"}]

\* The addresses, values, block ids and heights of the rows written to the
\* two tables.
ApiInputs ==
    [addresses |-> {"test_address", "other_address"},
     values |-> {1000000, 2000000},
     ids |-> {"test_block_hash", "fork_block_hash", "third_block_hash"},
     heights |-> {1000000, 1000001}]

\* What a write to the two tables and a call of a repository leave alone.
apiFrame == <<nodeVars, dbVars, is_running, current_height, target_height, mpc,
              err, win, Q, prod, cons, faults, crashes, fetch, ses, cache,
              run>>

\* An Output row is committed: unspent.
AddOutput ==
    /\ Len(api.outputs) < MaxOutputs
    /\ \E a \in ApiInputs.addresses, v \in ApiInputs.values :
         api' = [api EXCEPT !.outputs =
                    Append(@, [address |-> a, value |-> v,
                               spent_by_tx_id |-> "null"])]
    /\ UNCHANGED apiFrame

\* spent_by_tx_id of an unspent Output row is set.
SpendOutput ==
    /\ \E i \in 1..Len(api.outputs) :
         /\ api.outputs[i].spent_by_tx_id = "null"
         /\ api' = [api EXCEPT !.outputs[i].spent_by_tx_id = "spending_tx"]
    /\ UNCHANGED apiFrame

\* A Block row is committed: a new id, on the main chain.
AddBlock ==
    /\ Len(api.rows) < MaxApiBlocks
    /\ \E id \in ApiInputs.ids, h \in ApiInputs.heights :
         /\ \A i \in 1..Len(api.rows) : api.rows[i].id # id
         /\ api' = [api EXCEPT !.rows =
                       Append(@, [id |-> id, height |-> h, main_chain |-> TRUE])]
    /\ UNCHANGED apiFrame

\* A reorganization at one height: main_chain of the block that was on the
\* main chain is cleared and that of a fork block at its height is set.
SwitchMainChain ==
    /\ \E i, j \in 1..Len(api.rows) :
         /\ i # j
         /\ api.rows[i].height = api.rows[j].height
         /\ api.rows[i].main_chain
         /\ api' = [api EXCEPT !.rows[i].main_chain = FALSE,
                               !.rows[j].main_chain = TRUE]
    /\ UNCHANGED apiFrame

\* Result.scalar_one_or_none() on the rows of a select of columns: None for no
\* row, the first column (the id) of the only row, MultipleResultsFound for
\* more than one row.
ScalarOneOrNone(rows) ==
    IF Len(rows) = 0 THEN [exc |-> "none", confirmed |-> 0, block |-> "none"]
    ELSE IF Len(rows) = 1
         THEN [exc |-> "none", confirmed |-> 0, block |-> rows[1].id]
         ELSE [exc |-> "MultipleResultsFound", confirmed |-> 0, block |-> "none"]

\* AddressRepository.get_address_balance(address). The statement is built from
\* attributes of the class Output; an attribute the class does not have
\* raises AttributeError before anything is executed. func.sum is NULL over
\* no row, and `scalar_one() or 0` makes it 0.
GetAddressBalance(address) ==
    /\ LET used == {"value", "address", "spent_by_tx_id"}
           found == SelectSeq(api.outputs,
                              LAMBDA o : /\ o.address = address
                                         /\ o.spent_by_tx_id = "null")
           sum == [null |-> found = <<>>, value |-> SumValue(found)]
           confirmed == IF sum.null \/ sum.value = 0 THEN 0 ELSE sum.value
       IN api' = [api EXCEPT
                    !.call = "get_address_balance",
                    !.address = address,
                    !.result =
                       IF used \subseteq ModelColumns.Output
                       THEN [exc |-> "none", confirmed |-> confirmed,
                             block |-> "none"]
                       ELSE [exc |-> "AttributeError", confirmed |-> 0,
                             block |-> "none"]]
    /\ UNCHANGED apiFrame

\* BlockRepository.get_by_height(height): a select of columns of the class
\* Block where height matches, whatever main_chain is, then
\* scalar_one_or_none().
GetByHeight(height) ==
    /\ LET used == {"id", "header_id", "parent_id", "height", "timestamp",
                    "difficulty", "block_size", "block_coins",
                    "block_mining_time", "txs_count", "txs_size",
                    "miner_address", "miner_name", "main_chain", "version",
                    "transactions_root", "state_root", "pow_solutions"}
           found == SelectSeq(api.rows, LAMBDA b : b.height = height)
       IN api' = [api EXCEPT
                    !.call = "get_by_height",
                    !.height = height,
                    !.result =
                       IF used \subseteq ModelColumns.Block
                       THEN ScalarOneOrNone(found)
                       ELSE [exc |-> "AttributeError", confirmed |-> 0,
                             block |-> "none"]]
    /\ UNCHANGED apiFrame

NextApi ==
    \/ AddOutput
    \/ SpendOutput
    \/ AddBlock
    \/ SwitchMainChain
    \/ \E address \in ApiInputs.addresses : GetAddressBalance(address)
    \/ \E height \in ApiInputs.heights : GetByHeight(height)

\* The repositories of shark-api over the tables of the database.
SpecApi == InitFetch /\ [][NextApi]_vars

\* C27 (balance): get_address_balance returns confirmed = the sum of value
\* over the stored outputs with that address and spent_by_tx_id null, 0 when
\* there are none; so an output whose spent_by_tx_id is set no longer counts.
C27_Balance ==
    [][(/\ api'.call = "get_address_balance"
        /\ api'.outputs = api.outputs
        /\ api' # api)
          => /\ api'.result.exc = "none"
             /\ api'.result.confirmed =
                   SumValue(SelectSeq(api.outputs,
                                      LAMBDA o : /\ o.address = api'.address
                                                 /\ o.spent_by_tx_id = "null"))]_vars

\* C28 (block lookup across a reorganization): with two Block rows at one
\* height, get_by_height(height) returns a block, and when one of them has
\* main_chain set it returns that one.
C28_LookupAcrossReorg ==
    [][(/\ api'.call = "get_by_height"
        /\ api'.rows = api.rows
        /\ api' # api
        /\ Len(SelectSeq(api.rows, LAMBDA b : b.height = api'.height)) = 2)
          => /\ api'.result.exc = "none"
             /\ api'.result.block # "none"
             /\ \A i \in 1..Len(api.rows) :
                   (/\ api.rows[i].height = api'.height
                    /\ api.rows[i].main_chain
                    /\ \A j \in 1..Len(api.rows) :
                          (j # i /\ api.rows[j].height = api'.height)
                             => ~api.rows[j].main_chain)
                      => api'.result.block = api.rows[i].id]_vars

C32_EnqueueOrder ==
    [][(/\ Len(Q') = Len(Q) + 1
        /\ Q'[Len(Q')] # NONE)
          => /\ Q'[Len(Q')][1] > win.lastQueued
             /\ win'.lastQueued = Q'[Len(Q')][1]
             /\ Q'[Len(Q')][1] \in win.h..win.end]_vars

\* A second micro-batch has been fetched and its first block is on Q behind a
\* block of the first micro-batch.
C32_Witness ==
    /\ prod.pc = "put"
    /\ prod.cur > win.h
    /\ win.lastQueued >= prod.cur
    /\ win.queued >= 2

\* ------------------------------------------------- one call, by statement
\* What a call of _process_height or _process_blocks_batch on its own leaves
\* alone.
runFrame == <<nodeVars, dbVars, is_running, current_height, target_height, mpc,
              err, win, Q, prod, cons, crashes, fetch, ses, cache, api>>

\* The INSERT statements that processing one block sends, in the order of
\* _process_block and _process_transactions_bulk: the Block row (added to the
\* session, sent by the first flush, before the rows that depend on it), the
\* mining reward (_process_mining_reward adds nothing), then one bulk insert
\* per entity that has rows, and the AddressStats rows of the addresses that
\* have none yet.
BlockStatements(id, known) ==
    LET rows == BlockRows(id)
        addresses == {o.address : o \in rows.outputs}
        Insert(entity, present) ==
            IF present THEN <<[entity |-> entity, block |-> id]>> ELSE <<>>
    IN Insert("Block", TRUE)
         \o Insert("MiningReward", rows.mining_rewards # {})
         \o Insert("Transaction", rows.transactions # {})
         \o Insert("Input", rows.inputs # {})
         \o Insert("Output", rows.outputs # {})
         \o Insert("AddressStats", addresses \ known # {})

\* The rows that _process_transactions adds to the session of a block, by
\* table: its body is `pass`.
ProcessTransactions(id) ==
    [transactions |-> {}, inputs |-> {}, outputs |-> {}, mining_rewards |-> {}]

\* _process_height(height) is called on a service configured with or without
\* bulk_insert: `async with get_session() as session` is entered and
\* get_block_by_height(height) is awaited inside it.
HeightCall ==
    /\ run.pc \in {"idle", "returned", "raised"}
    /\ \E h \in 1..MaxHeight, bulk_insert \in BOOLEAN :
         run' = [NoRun EXCEPT !.op = "process_height", !.pc = "fetch",
                              !.height = h, !.sessions = 1,
                              !.known = run.known,
                              !.bulk_insert = bulk_insert]
    /\ UNCHANGED <<runFrame, faults>>

\* The node answers and the block is written and committed in the session, or
\* the request fails and the session is rolled back; the session is closed.
HeightFetched ==
    /\ run.op = "process_height"
    /\ run.pc = "fetch"
    /\ \/ /\ run' =
                IF run.bulk_insert
                THEN [run EXCEPT
                        !.pc = "returned", !.sessions = 0,
                        !.stmts = BlockStatements(NodeBlock(run.height), run.known),
                        !.rows = BlockRows(NodeBlock(run.height)),
                        !.known = @ \cup {o.address :
                                            o \in BlockRows(NodeBlock(run.height)).outputs}]
                ELSE [run EXCEPT
                        !.pc = "returned", !.sessions = 0,
                        !.stmts = <<[entity |-> "Block",
                                     block |-> NodeBlock(run.height)]>>,
                        !.rows = ProcessTransactions(NodeBlock(run.height))]
          /\ UNCHANGED faults
       \/ /\ faults < MaxFaults
          /\ faults' = faults + 1
          /\ run' = [run EXCEPT !.pc = "raised", !.sessions = 0]
    /\ UNCHANGED runFrame

\* _process_blocks_batch(blocks) is called with blocks of distinct heights: the
\* batch is sorted and the multi_block_transaction of the first sub-batch is
\* entered.
BatchCall ==
    /\ run.pc \in {"idle", "returned", "raised"}
    /\ \E S \in SUBSET Heights :
         /\ S # {}
         /\ Cardinality(S) <= MaxBatchLen
         /\ LET hs == Without(RangeSeq(1, MaxHeight), Heights \ S)
            IN run' = [NoRun EXCEPT
                         !.op = "process_blocks_batch", !.pc = "block",
                         !.batch = SortByHeight([k \in 1..Len(hs) |-> NodeBlock(hs[k])]),
                         !.sub = 1, !.i = 1, !.sessions = 1,
                         !.known = run.known]
    /\ UNCHANGED <<runFrame, faults>>

\* One block of the sub-batch is processed in the open transaction; after the
\* last block of the sub-batch the transaction is committed, and the next
\* sub-batch opens its own or the call returns.
BatchBlock ==
    /\ run.op = "process_blocks_batch"
    /\ run.pc = "block"
    /\ LET sub == SubBatch(run.batch, run.sub)
           sent == IF run.i = 1 THEN <<>> ELSE run.stmts
           last == run.i = Len(sub)
           more == run.sub < SubBatchCount(Len(run.batch))
       IN run' = [run EXCEPT
                    !.stmts = sent \o BlockStatements(sub[run.i], run.known),
                    !.known = @ \cup {o.address : o \in BlockRows(sub[run.i]).outputs},
                    !.i = IF last THEN 1 ELSE @ + 1,
                    !.sub = IF last /\ more THEN @ + 1 ELSE @,
                    !.pc = IF last /\ ~more THEN "returned" ELSE "block",
                    !.sessions = IF last /\ ~more THEN 0 ELSE 1]
    /\ UNCHANGED <<runFrame, faults>>

NextRun ==
    \/ HeightCall
    \/ HeightFetched
    \/ BatchCall
    \/ BatchBlock

\* Calls of _process_height and _process_blocks_batch, one after the other.
SpecRun == InitFetch /\ [][NextRun]_vars

\* C33 (insertion order inside a commit): the statements of one transaction
\* insert the entities in the order Blocks, Transactions, Inputs, Outputs,
\* Assets, MiningRewards, AddressStats, and every Transaction, Input and
\* Output statement comes after the statement of the row it references.
C33_InsertionOrder ==
    LET rank == [Block |-> 1, Transaction |-> 2, Input |-> 3, Output |-> 4,
                 Asset |-> 5, MiningReward |-> 6, AddressStats |-> 7]
        target == [Transaction |-> "Block", Input |-> "Transaction",
                   Output |-> "Transaction", Asset |-> "Output"]
    IN \A j \in 1..Len(run.stmts) :
         /\ \A i \in 1..(j - 1) :
              rank[run.stmts[i].entity] <= rank[run.stmts[j].entity]
         /\ run.stmts[j].entity \in DOMAIN target =>
              \E i \in 1..(j - 1) :
                 /\ run.stmts[i].entity = target[run.stmts[j].entity]
                 /\ run.stmts[i].block = run.stmts[j].block

\* C36 (no session across a node call): no call waits for the node's response
\* while it holds an open database session.
C36_NoSessionAcrossNodeCall ==
    ~(run.pc = "fetch" /\ run.sessions > 0)

C35_MiniBatchFlushed ==
    [][\A c \in Workers :
          /\ Len(cons'[c].batch) <= BatchMaxSize
          /\ (/\ cons[c].batch # <<>>
              /\ ~(HeightsOf(cons[c].batch) \subseteq HeightsOf(cons'[c].batch)))
                => cons[c].pc = "flush"]_vars

\* C37 (monotone cursor): without a reorganization the durable
\* SyncStatus.current_height never decreases, whatever the interleaving of
\* the consumers' solo commits, the sequential prefix and the end-of-window
\* cursor write.
C37_MonotoneCursor ==
    [][sync'.current_height >= sync.current_height]_vars

C39_QueueDepth ==
    prod.pc = "put"
       => /\ Len(Q) <= win.end - win.h + 1
          /\ ~(2 * Len(Q) > 3 * BatchSize)
          /\ Len(Q) < QueueCapacity

\* The producer is at the backpressure check with the whole window tail, of
\* two blocks or more, waiting in Q.
C39_Witness ==
    /\ prod.pc = "put"
    /\ prod.blocks = <<>>
    /\ prod.last = win.end
    /\ Len(Q) = win.end - win.h + 1
    /\ Len(Q) >= 2

\* C40 (bulk and per-record paths agree): a call of _process_height that
\* returns has persisted the same Transaction, Input and Output rows of its
\* block with bulk_insert disabled as with bulk_insert enabled, the rows of
\* _process_transactions_bulk.
C40_PathsAgree ==
    (run.op = "process_height" /\ run.pc = "returned")
       => \A table \in {"transactions", "inputs", "outputs"} :
            run.rows[table] = BlockRows(NodeBlock(run.height))[table]
====
